---------------------------- MODULE Spec2Model ----------------------------
(***************************************************************************)
(* A model of the raytracer: the time-sliced scan-line driver              *)
(* (render.rs: render_scene, driven by main.rs: main), the intersection    *)
(* engine (raytracer.rs), the triangle containment test (shapes.rs) and    *)
(* the recursive shader (render.rs: fresnel, cast_ray).                    *)
(*                                                                         *)
(* f64 values are modelled as exact rationals <<n, d>> with d > 0 in       *)
(* lowest terms; <<0, 0>> is NaN and <<1, 0>>, <<-1, 0>> are the           *)
(* infinities, so that a division by zero yields what IEEE-754 yields.     *)
(* Square roots are taken exactly; the inputs are drawn from sets on       *)
(* which every root the code takes is rational.                            *)
(***************************************************************************)
EXTENDS Integers, Sequences, FiniteSets, TLC

VARIABLES
    \* ---- frame driver (main.rs: main, render.rs: render_scene) ----
    scene_width,    \* scene.width
    scene_height,   \* scene.height
    main_y,         \* main's resume cursor `y`
    start_y,        \* render_scene's argument of the call in progress / last call
    y,              \* render_scene's row loop variable
    x,              \* render_scene's column loop variable
    pc,             \* position of the program
    expired,        \* did the last budget test of the call find the budget exceeded
    calls,          \* number of render_scene calls made so far
    idle,           \* number of main-loop iterations made after completion
    canvas,         \* the calls the canvas has received, in order
    \* ---- a call of one function of the intersection engine or the shader ----
    call,           \* the function called and its arguments
    done,           \* has the call returned
    ret,            \* the value it returned
    \* ---- a whole-scene query (raytracer.rs: ray_vs_scene_helper) ----
    scan_ray,       \* the ray of the query
    scan_scene,     \* scene.spheres, .ellipsoids, .rhombohedrons, .polygons
    break_on_hit,   \* the shadow query stops at the first hit
    scan_t,         \* the running bound `t`
    scan_out,       \* the recorded hit and its material, `out`
    scan_at,        \* the collection being iterated and the position in it
    \* ---- a call of cast_ray and the calls nested in it (render.rs) ----
    cast_stack,     \* the frames of the cast_ray calls in progress, innermost last
    cast_res,       \* `res` of the last whole-scene query
    cast_ret,       \* the colour the last nested call returned, until it is added
    queries         \* number of whole-scene queries made so far

renderVars == <<scene_width, scene_height, main_y, start_y, y, x, pc,
                expired, calls, idle, canvas>>

pureVars == <<call, done, ret>>

scanVars == <<scan_ray, scan_scene, break_on_hit, scan_t, scan_out, scan_at>>

castVars == <<cast_stack, cast_res, cast_ret, queries>>

vars == <<renderVars, pureVars, scanVars, castVars>>

-----------------------------------------------------------------------------
(* Bounds *)

MaxWidth == 11
MaxHeight == 3
MaxIdle == 1
\* The number of spheres of a scene.
MaxSpheres == 2

\* The largest max_t a caller of an intersection test passes, besides f64::MAX.
MaxT == 6
\* The distances k/2, |k| <= GridSpan, among which the roots of a ray/shape
\* equation are searched for.
GridSpan == 24
\* Points of a triangle's plane are taken at the barycentric coordinates
\* i/BaryDen, -BaryDen <= i <= 2 * BaryDen.
BaryDen == 3
\* Incidence values cos_theta_i are taken at the k/CosDen and k/(CosDen + 8), 0 <= k.
CosDen == 5

(* Program constants *)

\* u32::MAX, the completion sentinel.  Only its being larger than every row
\* index matters; the value is the largest the model checker's integers hold.
U32_MAX == 2147483647

\* The divisor of the progress-log test, `scene.width / 10`.
LOG_STEPS == 10

\* f64::MAX, the max_t of a whole-scene nearest query.  Only its being larger
\* than every distance of the scenes matters.
F64_MAX == 1000000


-----------------------------------------------------------------------------
(* f64 arithmetic on exact values *)

\* An operator named ...Of works on the values of its operands; the operator
\* of the same name without Of evaluates the operands once and applies it.

RECURSIVE GCD(_, _)
GCD(a, b) ==
    IF b = 0 THEN a ELSE CHOOSE g \in {GCD(v, r) : v \in {b}, r \in {a % b}} : TRUE

IAbs(n) == IF n < 0 THEN -n ELSE n
ISign(n) == IF n < 0 THEN -1 ELSE IF n > 0 THEN 1 ELSE 0

NaN == <<0, 0>>
PosInf == <<1, 0>>
NegInf == <<-1, 0>>

\* The value n / d, d # 0, in lowest terms with a positive denominator.
R(n, d) ==
    LET g == GCD(IAbs(n), IAbs(d))
    IN  <<ISign(d) * (n \div g), IAbs(d) \div g>>

Zero == <<0, 1>>
One == <<1, 1>>

IsNaN(a) == a = NaN
IsFinite(a) == a[2] /= 0

RNeg(a) == <<-a[1], a[2]>>

RAddOf(a, b) ==
    IF IsFinite(a) /\ IsFinite(b)
       THEN LET g == GCD(a[2], b[2])
            IN  R((a[1] * (b[2] \div g)) + (b[1] * (a[2] \div g)),
                  (a[2] \div g) * b[2])
       ELSE IF IsNaN(a) \/ IsNaN(b) THEN NaN
       ELSE IF IsFinite(a) THEN b
       ELSE IF IsFinite(b) THEN a
       ELSE IF a = b THEN a ELSE NaN
RAdd(a, b) == CHOOSE r \in {RAddOf(u, v) : u \in {a}, v \in {b}} : TRUE

RSub(a, b) == RAdd(a, RNeg(b))

RMulOf(a, b) ==
    IF IsFinite(a) /\ IsFinite(b)
       THEN LET g1 == GCD(IAbs(a[1]), b[2])
                g2 == GCD(IAbs(b[1]), a[2])
            IN  R((a[1] \div g1) * (b[1] \div g2), (a[2] \div g2) * (b[2] \div g1))
       ELSE IF IsNaN(a) \/ IsNaN(b) \/ a[1] = 0 \/ b[1] = 0 THEN NaN
       ELSE <<ISign(a[1]) * ISign(b[1]), 0>>
RMul(a, b) == CHOOSE r \in {RMulOf(u, v) : u \in {a}, v \in {b}} : TRUE

\* IEEE-754 division: x / 0 is an infinity, 0 / 0 is NaN.
RDivOf(a, b) ==
    IF IsFinite(a) /\ IsFinite(b)
       THEN IF b[1] /= 0 THEN R(a[1] * b[2], a[2] * b[1])
            ELSE IF a[1] = 0 THEN NaN ELSE <<ISign(a[1]), 0>>
       ELSE IF IsNaN(a) \/ IsNaN(b) THEN NaN
       ELSE IF IsFinite(a) THEN Zero
       ELSE IF IsFinite(b)
               THEN <<a[1] * (IF b[1] < 0 THEN -1 ELSE 1), 0>>
               ELSE NaN
RDiv(a, b) == CHOOSE r \in {RDivOf(u, v) : u \in {a}, v \in {b}} : TRUE

\* Comparisons; every comparison with NaN is false.
RLt(a, b) ==
    /\ ~ IsNaN(a)
    /\ ~ IsNaN(b)
    /\ IF IsFinite(a) /\ IsFinite(b) THEN (a[1] * b[2]) < (b[1] * a[2])
       ELSE IF a = NegInf THEN b /= NegInf
       ELSE IF b = PosInf THEN a /= PosInf
       ELSE FALSE

RGt(a, b) == RLt(b, a)
REq(a, b) == ~ IsNaN(a) /\ ~ IsNaN(b) /\ a = b
RLe(a, b) == RLt(a, b) \/ REq(a, b)
RGe(a, b) == RLe(b, a)

RAbs(a) == <<IAbs(a[1]), a[2]>>
RMax(a, b) == IF RLt(a, b) THEN b ELSE a

\* The least k in lo..hi with k * k >= n, by bisection.
RECURSIVE ISqrtIn(_, _, _)
ISqrtIn(n, lo, hi) ==
    IF lo >= hi THEN lo
    ELSE LET mid == (lo + hi) \div 2
         IN  IF mid * mid >= n THEN ISqrtIn(n, lo, mid) ELSE ISqrtIn(n, mid + 1, hi)

\* 46340 is the largest integer whose square the checker's integers hold.
ISqrt(n) == ISqrtIn(n, 0, IF n < 46340 THEN n ELSE 46340)

IsSquare(n) == n >= 0 /\ ISqrt(n) * ISqrt(n) = n

\* The values whose square root is a rational (or NaN: a negative value).
HasExactSqrt(a) == IsFinite(a) /\ (a[1] < 0 \/ (IsSquare(a[1]) /\ IsSquare(a[2])))

\* f64::sqrt on the values of HasExactSqrt.
RSqrt(a) ==
    IF a[1] < 0 THEN NaN ELSE <<ISqrt(a[1]), ISqrt(a[2])>>

(* Float3 *)

Float3(a, b, c) == <<a, b, c>>
\* A Float3 of whole numbers.
F3(a, b, c) == <<R(a, 1), R(b, 1), R(c, 1)>>

VAdd(u, v) == <<RAdd(u[1], v[1]), RAdd(u[2], v[2]), RAdd(u[3], v[3])>>
VSub(u, v) == <<RSub(u[1], v[1]), RSub(u[2], v[2]), RSub(u[3], v[3])>>
VNeg(u) == <<RNeg(u[1]), RNeg(u[2]), RNeg(u[3])>>
VScale(k, u) == <<RMul(k, u[1]), RMul(k, u[2]), RMul(k, u[3])>>
Dot(u, v) == RAdd(RAdd(RMul(u[1], v[1]), RMul(u[2], v[2])), RMul(u[3], v[3]))
Cross(u, v) ==
    <<RSub(RMul(u[2], v[3]), RMul(u[3], v[2])),
      RSub(RMul(u[3], v[1]), RMul(u[1], v[3])),
      RSub(RMul(u[1], v[2]), RMul(u[2], v[1]))>>
VZero == F3(0, 0, 0)

\* Vector3::normalize, on the vectors whose length is rational.
HasExactNorm(u) == HasExactSqrt(Dot(u, u))
Normalize(u) ==
    LET len == RSqrt(Dot(u, u))
    IN  <<RDiv(u[1], len), RDiv(u[2], len), RDiv(u[3], len)>>

(* Option *)

None == [some |-> FALSE]
Some(v) == [some |-> TRUE, val |-> v]

(* Geometry model (shapes.rs) *)

Ray(origin, direction) == [origin |-> origin, direction |-> direction]
Intersection(t, normal) == [t |-> t, normal |-> normal]
Plane(normal, point) == [normal |-> normal, point |-> point]
Sphere(center, radius, material) ==
    [center |-> center, radius |-> radius, material |-> material]

\* The position `ray.origin + t * ray.direction`.
PointAt(ray, t) == VAdd(ray.origin, VScale(t, ray.direction))


-----------------------------------------------------------------------------
(* Intersection engine (raytracer.rs) *)

\* The coefficients and the discriminant of the ray/sphere quadratic.
SphereQuadratic(ray, sphere) ==
    LET oc == VSub(ray.origin, sphere.center)
        a == Dot(ray.direction, ray.direction)
        b == RMul(R(2, 1), Dot(oc, ray.direction))
        c == RSub(Dot(oc, oc), RMul(sphere.radius, sphere.radius))
    IN  [a |-> a, b |-> b, c |-> c,
         discriminant |-> RSub(RMul(b, b), RMul(RMul(R(4, 1), a), c))]

\* The count of ray_vs_sphere2: how many of the two roots are not behind the
\* ray origin.
RootCountAll(t1, t2) == 2
RootCount(t1, t2) ==
    IF RLt(t2, Zero) THEN 0 ELSE IF RLt(t1, Zero) THEN 1 ELSE 2

\* The two intersections of ray_vs_sphere2 and their count.
SphereHits(ray, sphere, t1, t2) ==
    [count |-> RootCount(t1, t2),
     result |-> <<Intersection(t1, VSub(PointAt(ray, t1), sphere.center)),
                  Intersection(t2, VSub(PointAt(ray, t2), sphere.center))>>]

\* ray_vs_sphere2 from the quadratic q on.
SphereRoots(ray, sphere, q) ==
    IF RLt(q.discriminant, Zero)
       THEN [count |-> 0, result |-> <<>>]
       ELSE SphereHits(ray, sphere,
                RDiv(RSub(RNeg(q.b), RSqrt(q.discriminant)), RMul(R(2, 1), q.a)),
                RDiv(RAdd(RNeg(q.b), RSqrt(q.discriminant)), RMul(R(2, 1), q.a)))

ray_vs_sphere2(ray, sphere) == SphereRoots(ray, sphere, SphereQuadratic(ray, sphere))

\* ray_vs_sphere from the result r2 of ray_vs_sphere2 on.
SphereSelect(r2, max_t) ==
    IF r2.count = 2
       THEN IF RLt(r2.result[1].t, max_t) THEN Some(r2.result[1]) ELSE None
       ELSE IF r2.count = 1
               THEN IF RLt(r2.result[2].t, max_t) THEN Some(r2.result[2]) ELSE None
               ELSE None

ray_vs_sphere(ray, sphere, max_t) == SphereSelect(ray_vs_sphere2(ray, sphere), max_t)

\* One iteration of `for plane in rhombohedron.planes.iter()`; st holds
\* t[0], t[1], normals[0], normals[1] and whether the function has returned
\* None from inside the loop.
RhombohedronStep(ray, plane, st) ==
    LET d_dot_n == Dot(ray.direction, plane.normal)
        op_dot_n == Dot(VSub(ray.origin, plane.point), plane.normal)
        t_int == RDiv(RNeg(op_dot_n), d_dot_n)
    IN  IF st.outside THEN st
        ELSE IF RLt(d_dot_n, Zero)
           THEN IF RGt(t_int, st.t0)
                   THEN [st EXCEPT !.t0 = t_int, !.n0 = plane.normal]
                   ELSE st
        ELSE IF RGt(d_dot_n, Zero)
           THEN IF RLt(t_int, st.t1)
                   THEN [st EXCEPT !.t1 = t_int, !.n1 = plane.normal]
                   ELSE st
        ELSE IF RGt(op_dot_n, Zero)
           THEN [st EXCEPT !.outside = TRUE]
           ELSE st

RECURSIVE RhombohedronLoop(_, _, _, _)
RhombohedronLoop(ray, planes, i, st) ==
    IF i > Len(planes) THEN st
    ELSE RhombohedronLoop(ray, planes, i + 1, RhombohedronStep(ray, planes[i], st))

\* The final test of ray_vs_rhombohedron: `if t > max_t { return None; }`.
BeyondMax(t, max_t) == RGt(t, max_t)

\* ray_vs_rhombohedron after the loop over the planes.
RhombohedronSelect(st, max_t) ==
    IF st.outside THEN None
    ELSE IF RGt(st.t0, st.t1) THEN None
    ELSE IF REq(Zero, st.t0)
            THEN IF BeyondMax(st.t1, max_t) THEN None
                 ELSE Some(Intersection(st.t1, st.n1))
            ELSE IF BeyondMax(st.t0, max_t) THEN None
                 ELSE Some(Intersection(st.t0, st.n0))

ray_vs_rhombohedron(ray, rhombohedron, max_t) ==
    RhombohedronSelect(
        RhombohedronLoop(ray, rhombohedron.planes, 1,
            [t0 |-> Zero, t1 |-> max_t, n0 |-> VZero, n1 |-> VZero,
             outside |-> FALSE]),
        max_t)

\* The range test of ray_vs_plane: `if t < 0.0 || t > max_t { return None; }`.
PlaneOutOfRange(t, max_t) == RLt(t, Zero) \/ RGt(t, max_t)

\* ray_vs_plane from d_dot_n and the solution t on.
PlaneSelect(plane, d_dot_n, t, max_t) ==
    IF REq(Zero, d_dot_n) THEN None
    ELSE IF PlaneOutOfRange(t, max_t) THEN None
    ELSE Some(Intersection(t, plane.normal))

ray_vs_plane(ray, plane, max_t) ==
    PlaneSelect(plane,
        Dot(ray.direction, plane.normal),
        RDiv(RNeg(RSub(Dot(ray.origin, plane.normal), Dot(plane.normal, plane.point))),
             Dot(ray.direction, plane.normal)),
        max_t)

(* shapes.rs: Triangle, Polygon, Rhombohedron, Ellipsoid *)

TriangleFromVertices(vertices) ==
    LET edges == <<VSub(vertices[2], vertices[1]), VSub(vertices[3], vertices[1])>>
    IN  [vertices |-> vertices,
         edges |-> edges,
         normal |-> Normalize(Cross(edges[1], edges[2]))]

\* The barycentric coordinates Triangle::contains computes from the dot
\* products aa, bb, ab of the edges and x_, y_ of the point with the edges.
BarycentricSolve(aa, bb, ab, x_, y_) ==
    <<RMul(RDiv(One, RSub(RMul(aa, bb), RMul(ab, ab))),
           RAdd(RMul(bb, x_), RMul(RNeg(ab), y_))),
      RMul(RDiv(One, RSub(RMul(aa, bb), RMul(ab, ab))),
           RAdd(RMul(RNeg(ab), x_), RMul(aa, y_)))>>

TriangleBarycentric(triangle, point) ==
    BarycentricSolve(Dot(triangle.edges[1], triangle.edges[1]),
                     Dot(triangle.edges[2], triangle.edges[2]),
                     Dot(triangle.edges[1], triangle.edges[2]),
                     Dot(VSub(point, triangle.vertices[1]), triangle.edges[1]),
                     Dot(VSub(point, triangle.vertices[1]), triangle.edges[2]))

\* The final test of Triangle::contains.
BaryInsideClosed(bx, by) ==
    RGe(bx, Zero) /\ RGe(by, Zero) /\ RLe(RAdd(bx, by), One)
BaryInside(bx, by) ==
    RGt(bx, Zero) /\ RGt(by, Zero) /\ RLt(RAdd(bx, by), One)

BaryInsidePair(bary) == BaryInside(bary[1], bary[2])

TriangleContains(triangle, point) ==
    BaryInsidePair(TriangleBarycentric(triangle, point))

PolygonFromVertices(vertices, material) ==
    LET triangles == [i \in 1..(Len(vertices) - 2) |->
                         TriangleFromVertices(<<vertices[1], vertices[i + 1], vertices[i + 2]>>)]
    IN  [triangles |-> triangles,
         plane |-> Plane(triangles[1].normal, vertices[1]),
         material |-> material]

\* ray_vs_polygon from the result of ray_vs_plane on.
PolygonSelect(ray, polygon, result) ==
    IF ~ result.some THEN None
    ELSE IF \E i \in 1..Len(polygon.triangles) :
               TriangleContains(polygon.triangles[i], PointAt(ray, result.val.t))
            THEN result
            ELSE None

ray_vs_polygon(ray, polygon, max_t) ==
    PolygonSelect(ray, polygon, ray_vs_plane(ray, polygon.plane, max_t))

RhombohedronFromCornerAndEdges(corner, length, width, height, material) ==
    LET n0 == Normalize(Cross(length, height))
        n2 == Normalize(Cross(height, width))
        n4 == Normalize(Cross(width, length))
    IN  [planes |-> <<Plane(n0, corner),
                      Plane(VNeg(n0), VAdd(corner, width)),
                      Plane(n2, corner),
                      Plane(VNeg(n2), VAdd(corner, length)),
                      Plane(n4, corner),
                      Plane(VNeg(n4), VAdd(corner, height))>>,
         material |-> material]

\* Matrix3: a matrix is the triple of its rows.
MatVec(m, v) == <<Dot(m[1], v), Dot(m[2], v), Dot(m[3], v)>>
Transpose(m) ==
    <<<<m[1][1], m[2][1], m[3][1]>>,
      <<m[1][2], m[2][2], m[3][2]>>,
      <<m[1][3], m[2][3], m[3][3]>>>>
\* The inverse of the matrix whose columns are c: its rows are the cross
\* products of the columns over the determinant.
InverseOfColumns(c) ==
    LET det == Dot(c[1], Cross(c[2], c[3]))
        k == RDiv(One, det)
    IN  <<VScale(k, Cross(c[2], c[3])),
          VScale(k, Cross(c[3], c[1])),
          VScale(k, Cross(c[1], c[2]))>>

EllipsoidNew(center, semiaxes, material) ==
    LET inverse == InverseOfColumns(semiaxes)
    IN  [center |-> center,
         inverse |-> inverse,
         inverse_transpose |-> Transpose(inverse),
         material |-> material]

\* The ray and the sphere of ray_vs_ellipsoid, in the space where the
\* ellipsoid is the unit sphere at the origin.
EllipsoidSpaceRay(ray, ellipsoid) ==
    Ray(MatVec(ellipsoid.inverse, VSub(ray.origin, ellipsoid.center)),
        MatVec(ellipsoid.inverse, ray.direction))
EllipsoidSpaceSphere(ellipsoid) == Sphere(VZero, One, ellipsoid.material)

\* ray_vs_ellipsoid from the result of ray_vs_sphere on.
EllipsoidSelect(ellipsoid, hit) ==
    IF hit.some
       THEN Some(Intersection(hit.val.t,
                Normalize(MatVec(ellipsoid.inverse_transpose, hit.val.normal))))
       ELSE None

ray_vs_ellipsoid(ray, ellipsoid, max_t) ==
    EllipsoidSelect(ellipsoid,
        ray_vs_sphere(EllipsoidSpaceRay(ray, ellipsoid),
                      EllipsoidSpaceSphere(ellipsoid), max_t))

-----------------------------------------------------------------------------
(* Shading (render.rs) *)

\* approx_eq!(f64, a, b): equality up to 4 units in the last place.  No two
\* values of the model are that close without being equal.
ApproxEq(a, b) == REq(a, b)

\* The index of refraction and the magnetic permeability of air.
AIR == One

\* The value returned when the term under the square root is negative.
TotalReflection == One

fresnel(n_i, n_t, u_i, u_t, cos_theta_i) ==
    LET nit == RDiv(n_i, n_t)
        uit == RDiv(u_i, u_t)
        determinate == RSub(One, RMul(RMul(nit, nit),
                                     RSub(One, RMul(cos_theta_i, cos_theta_i))))
        cos_theta_t == RSqrt(determinate)
        e_r_perp == RSub(RMul(nit, cos_theta_i), RMul(uit, cos_theta_t))
        e_i_perp == RAdd(RMul(nit, cos_theta_i), RMul(uit, cos_theta_t))
        e_r_par == RSub(RMul(uit, cos_theta_i), RMul(nit, cos_theta_t))
        e_i_par == RAdd(RMul(uit, cos_theta_i), RMul(nit, cos_theta_t))
        e_perp == RDiv(e_r_perp, e_i_perp)
        e_par == RDiv(e_r_par, e_i_par)
    IN  IF RLt(determinate, Zero) THEN TotalReflection
        ELSE RMul(R(1, 2), RAdd(RMul(e_perp, e_perp), RMul(e_par, e_par)))

\* The term under the square root of fresnel.
FresnelDeterminate(n_i, n_t, cos_theta_i) ==
    RSub(One, RMul(RMul(RDiv(n_i, n_t), RDiv(n_i, n_t)),
                   RSub(One, RMul(cos_theta_i, cos_theta_i))))

\* cast_ray: is the ray travelling in air.
InAir(n_i) == ApproxEq(n_i, AIR)

\* cast_ray: the medium on the far side of the hit surface and the
\* attenuation of the medium the ray has travelled in.
Media(n_i, material, air_attenuation) ==
    IF InAir(n_i)
       THEN [n_t |-> material.index_of_refraction, u_i |-> AIR,
             u_t |-> material.magnetic_permeability,
             attenuation |-> air_attenuation]
       ELSE [n_t |-> AIR, u_i |-> material.magnetic_permeability, u_t |-> AIR,
             attenuation |-> material.attenuation]

transmission_coefficient(material, r_) ==
    RMul(material.specular_coefficient, RSub(One, r_))
reflection_coefficient(material, r_) ==
    RMul(material.specular_coefficient, r_)

-----------------------------------------------------------------------------
(* Frame driver *)

\* The widths a scene is given: the small ones, for which scene.width / 10
\* is 0, and the ones from 10 on.
Widths == {1, 9} \cup (10..MaxWidth)
Heights == 1..MaxHeight

\* calculate_pixel_color for the deterministic anti-alias modes: a function of
\* the (immutable) scene and the pixel.  The palette is three colours wide.
calculate_pixel_color(w, h, px, py) == (px + (2 * py) + w + h) % 3

\* The cursor render_scene returns when the budget is found exceeded after
\* row `row`.
NextCursorStale(row) == row
NextCursor(row) == row + 1

\* The guard of the early return: `y != scene.height && elapsed > 16ms`.
BudgetReturn(row, height, elapsed_over) == row /= height /\ elapsed_over

\* `y % (scene.width / 10)`: the remainder panics when the divisor is 0.
LogTestPanics(width) == (width \div LOG_STEPS) = 0

\* Window::set_pixel: `let y = self.height - y;`, the row of the window the
\* point is drawn in; the window's height is scene.height.
WindowRow(height, py) == height - py
\* The u32 subtraction has no value.
WindowRowUnderflows(height, py) == py > height

\* canvas.set_pixel(px, py, c) and the row it draws in; canvas.present().
SetPixelEvent(px, py, c) ==
    [op |-> "set_pixel", x |-> px, y |-> py, color |-> c,
     row |-> WindowRow(scene_height, py)]
PresentEvent == [op |-> "present", x |-> 0, y |-> 0, color |-> 0, row |-> 0]

\* No call is in progress.
NoCall == [fn |-> "none"]

\* The frame driver at rest.
RenderIdle ==
    /\ scene_width = 1
    /\ scene_height = 1
    /\ main_y = 0
    /\ start_y = 0
    /\ y = 0
    /\ x = 0
    /\ pc = "off"
    /\ expired = FALSE
    /\ calls = 0
    /\ idle = 0
    /\ canvas = <<>>

\* No whole-scene query is in progress.
ScanIdle ==
    /\ scan_ray = Ray(VZero, VZero)
    /\ scan_scene = [spheres |-> <<>>, ellipsoids |-> <<>>,
                     rhombohedrons |-> <<>>, polygons |-> <<>>]
    /\ break_on_hit = FALSE
    /\ scan_t = Zero
    /\ scan_out = None
    /\ scan_at = [list |-> "returned", index |-> 1]

\* No call of cast_ray is in progress.
CastIdle ==
    /\ cast_stack = <<>>
    /\ cast_res = None
    /\ cast_ret = None
    /\ queries = 0

InitRender ==
    /\ scene_width \in Widths
    /\ scene_height \in Heights
    /\ main_y = 0
    /\ start_y = 0
    /\ y = 0
    /\ x = 0
    /\ pc = "main"
    /\ expired = FALSE
    /\ calls = 0
    /\ idle = 0
    /\ canvas = <<>>
    /\ call = NoCall
    /\ done = FALSE
    /\ ret = None
    /\ ScanIdle
    /\ CastIdle

\* main: the event pump reports Quit and the loop is left.
EventPumpQuit ==
    /\ UNCHANGED <<pureVars, scanVars, castVars>>
    /\ pc = "main"
    /\ pc' = "quit"
    /\ UNCHANGED <<scene_width, scene_height, main_y, start_y, y, x,
                   expired, calls, idle, canvas>>

\* main: `if y != u32::MAX { y = render_scene(&scene, &mut window, y, 10) }`,
\* up to the first row of the call; an empty row range falls through the
\* loop and returns the sentinel.
CallRenderScene ==
    /\ UNCHANGED <<pureVars, scanVars, castVars>>
    /\ pc = "main"
    /\ main_y /= U32_MAX
    /\ start_y' = main_y
    /\ calls' = calls + 1
    /\ expired' = FALSE
    /\ IF main_y < scene_height
          THEN /\ y' = main_y
               /\ x' = 0
               /\ pc' = "pixel"
               /\ UNCHANGED main_y
          ELSE /\ main_y' = U32_MAX
               /\ pc' = "returned"
               /\ UNCHANGED <<y, x>>
    /\ UNCHANGED <<scene_width, scene_height, idle, canvas>>

\* render_scene: one iteration of `for x in 0..scene.width`.
SetPixel ==
    /\ UNCHANGED <<pureVars, scanVars, castVars>>
    /\ pc = "pixel"
    /\ canvas' = Append(canvas,
           SetPixelEvent(x, y, calculate_pixel_color(scene_width, scene_height, x, y)))
    /\ IF x + 1 < scene_width
          THEN x' = x + 1 /\ pc' = "pixel"
          ELSE x' = x /\ pc' = "rowend"
    /\ UNCHANGED <<scene_width, scene_height, main_y, start_y, y,
                   expired, calls, idle>>

\* render_scene: the rest of the row loop's body after the last pixel of a
\* row: the progress-log test, canvas.present(), the budget test.
RowEnd ==
    /\ UNCHANGED <<pureVars, scanVars, castVars>>
    /\ pc = "rowend"
    /\ IF LogTestPanics(scene_width)
          THEN /\ pc' = "panicked"
               /\ UNCHANGED <<main_y, y, x, expired, canvas>>
          ELSE /\ canvas' = Append(canvas, PresentEvent)
               /\ \E elapsed_over \in BOOLEAN :
                    /\ expired' = elapsed_over
                    /\ IF BudgetReturn(y, scene_height, elapsed_over)
                          THEN /\ main_y' = NextCursor(y)
                               /\ pc' = "returned"
                               /\ UNCHANGED <<y, x>>
                          ELSE IF y + 1 < scene_height
                                  THEN /\ y' = y + 1
                                       /\ x' = 0
                                       /\ pc' = "pixel"
                                       /\ UNCHANGED main_y
                                  ELSE /\ main_y' = U32_MAX
                                       /\ pc' = "returned"
                                       /\ UNCHANGED <<y, x>>
    /\ UNCHANGED <<scene_width, scene_height, start_y, calls, idle>>

\* main: `window.present(); sleep(..)` after render_scene has returned.
MainPresent ==
    /\ UNCHANGED <<pureVars, scanVars, castVars>>
    /\ pc = "returned"
    /\ canvas' = Append(canvas, PresentEvent)
    /\ pc' = "main"
    /\ UNCHANGED <<scene_width, scene_height, main_y, start_y, y, x,
                   expired, calls, idle>>

\* main: an iteration made once the cursor is the sentinel: render_scene is
\* not called, the window is presented.
MainIdle ==
    /\ UNCHANGED <<pureVars, scanVars, castVars>>
    /\ pc = "main"
    /\ main_y = U32_MAX
    /\ idle < MaxIdle
    /\ idle' = idle + 1
    /\ canvas' = Append(canvas, PresentEvent)
    /\ UNCHANGED <<scene_width, scene_height, main_y, start_y, y, x, pc,
                   expired, calls>>

NextRender ==
    \/ EventPumpQuit
    \/ CallRenderScene
    \/ SetPixel
    \/ RowEnd
    \/ MainPresent
    \/ MainIdle

SpecRender == InitRender /\ [][NextRender]_vars


-----------------------------------------------------------------------------
(* Materials and shapes the calls are made with *)

Material(diffuse, specular_coefficient, specular_power, attenuation, electric_permittivity, magnetic_permeability, index_of_refraction) ==
    [diffuse |-> diffuse,
     specular_coefficient |-> specular_coefficient,
     specular_power |-> specular_power,
     attenuation |-> attenuation,
     electric_permittivity |-> electric_permittivity,
     magnetic_permeability |-> magnetic_permeability,
     index_of_refraction |-> index_of_refraction]

\* The materials of create_scene: the sphere's (the polygon's and the
\* ellipsoid's differ in the colours only) and the rhombohedron's, whose
\* index of refraction is sqrt(2.3716) = 1.54.
SphereMaterial ==
    Material(<<R(1, 2), R(7, 10), R(1, 2)>>, R(3, 10), R(70, 1), VZero,
             R(1000000, 1), One, R(1000, 1))
RhombohedronMaterial ==
    Material(<<R(3, 10), R(3, 10), R(1, 2)>>, R(4, 5), R(20, 1),
             <<R(1, 2), R(1, 2), R(1, 2)>>, R(5929, 2500), One, R(77, 50))
PolygonMaterial ==
    Material(<<R(3, 5), R(3, 5), R(3, 5)>>, R(2, 5), R(20, 1), VZero,
             R(1000000, 1), One, R(1000, 1))
EllipsoidMaterial ==
    Material(<<R(7, 10), R(1, 2), R(1, 2)>>, R(3, 10), R(70, 1), VZero,
             R(1000000, 1), One, R(1000, 1))

\* Further materials: a glass of index 5/3, a clear material whose index
\* and permeability are those of air, and a magnetic one of index 6.
GlassMaterial ==
    Material(<<R(1, 10), R(1, 10), R(1, 10)>>, One, R(20, 1),
             <<R(1, 2), R(1, 2), One>>, R(25, 9), One, R(5, 3))
ClearMaterial ==
    Material(<<R(1, 5), R(1, 5), R(1, 5)>>, R(1, 2), R(20, 1),
             <<R(1, 2), One, One>>, One, One, One)
MagneticMaterial ==
    Material(<<R(1, 5), R(1, 5), R(1, 5)>>, R(1, 2), R(20, 1),
             <<One, R(1, 2), One>>, R(18, 1), R(2, 1), R(6, 1))

Materials == {SphereMaterial, RhombohedronMaterial, GlassMaterial,
              ClearMaterial, MagneticMaterial}

\* The distances a root is searched among.
TGrid == {R(k, 2) : k \in (-GridSpan)..GridSpan}

\* max_t of a call.
MaxTs == {R(k, 1) : k \in 0..MaxT} \cup {R(F64_MAX, 1)}

Origins == {F3(ox, 0, oz) : ox \in {0, 3, 4, 5, 6}, oz \in {0, 2}}
Directions == {F3(0, 0, -1), F3(0, 0, 2), F3(3, 0, 4), F3(1, 0, 0)}
Rays == {Ray(o, d) : o \in Origins, d \in Directions}

Spheres ==
    {Sphere(F3(0, 0, cz), r, SphereMaterial) :
        cz \in {-4, 0, 4}, r \in {R(5, 1), R(1, 1)}}

\* Boxes: axis-aligned ones around and in front of the origins, and an
\* oblique one (its width edge leans along x).
Rhombohedrons ==
    {RhombohedronFromCornerAndEdges(F3(-1, -1, 1), F3(2, 0, 0), F3(0, 0, -2),
                                    F3(0, 2, 0), RhombohedronMaterial),
     RhombohedronFromCornerAndEdges(F3(-1, -1, 7), F3(8, 0, 0), F3(0, 0, -12),
                                    F3(0, 2, 0), RhombohedronMaterial),
     RhombohedronFromCornerAndEdges(F3(-1, -1, -3), F3(5, 0, 0), F3(0, 0, -2),
                                    F3(0, 2, 0), RhombohedronMaterial),
     RhombohedronFromCornerAndEdges(F3(-1, -1, 6), F3(4, 0, 0), F3(3, 0, -4),
                                    F3(0, 2, 0), RhombohedronMaterial)}

Planes ==
    {Plane(F3(0, 0, 1), F3(0, 0, -3)),
     Plane(F3(0, 0, -1), F3(0, 0, 6)),
     Plane(F3(0, 1, 0), F3(0, 0, 0)),
     Plane(F3(0, 1, 0), F3(0, -1, 0)),
     Plane(F3(1, 0, 0), F3(7, 0, 0)),
     Plane(<<R(-4, 5), Zero, R(-3, 5)>>, F3(0, 0, 5))}

Polygons ==
    {PolygonFromVertices(<<F3(-1, -2, -3), F3(4, -2, -3), F3(4, 2, -3), F3(-1, 2, -3)>>,
                         PolygonMaterial),
     PolygonFromVertices(<<F3(-1, -2, 6), F3(-1, 2, 6), F3(7, 2, 6), F3(7, -2, 6)>>,
                         PolygonMaterial),
     PolygonFromVertices(<<F3(7, -1, -9), F3(7, 1, -9), F3(7, 2, 0), F3(7, 1, 9), F3(7, -1, 9)>>,
                         PolygonMaterial)}

Triangles ==
    {TriangleFromVertices(<<F3(0, 0, 0), F3(3, 0, 0), F3(0, 6, 0)>>),
     TriangleFromVertices(<<F3(1, 1, 2), F3(4, 1, 2), F3(2, 4, 2)>>),
     TriangleFromVertices(<<F3(0, 0, 0), F3(3, 0, 0), F3(-3, 3, 0)>>),
     TriangleFromVertices(<<F3(2, 0, 1), F3(2, 0, -2), F3(2, 3, 4)>>),
     TriangleFromVertices(<<F3(0, 0, 0), F3(1, 0, 0), F3(0, 3, 4)>>)}

\* The point of the triangle's plane at the barycentric coordinates (bx, by)
\* relative to vertex 0 and the two edges.
TrianglePoint(triangle, bx, by) ==
    VAdd(triangle.vertices[1],
         VAdd(VScale(bx, triangle.edges[1]), VScale(by, triangle.edges[2])))

TriangleCentroid(triangle) ==
    VScale(R(1, 3), VAdd(triangle.vertices[1],
                         VAdd(triangle.vertices[2], triangle.vertices[3])))

\* The mirror image of p in the line through a and b.
ReflectAcross(p, a, b) ==
    LET e == VSub(b, a)
        k == RDiv(Dot(VSub(p, a), e), Dot(e, e))
        foot == VAdd(a, VScale(k, e))
    IN  VSub(VScale(R(2, 1), foot), p)

\* The endpoints of edge i (1..3) of a triangle.
TriangleEdge(triangle, i) ==
    <<triangle.vertices[i], triangle.vertices[(i % 3) + 1]>>

-----------------------------------------------------------------------------
(* Calls of the intersection engine, each with arguments of its own *)

\* The distances of the grid at which the ray is on the sphere's surface.
SphereGridRoots(ray, sphere) ==
    {t \in TGrid :
        LET d == VSub(PointAt(ray, t), sphere.center)
        IN  Dot(d, d) = RMul(sphere.radius, sphere.radius)}

\* The ray/sphere pairs on which the square root of ray_vs_sphere2 is exact
\* and the roots of the quadratic, if any, are distances of the grid.
SphereExact(ray, sphere) ==
    LET q == SphereQuadratic(ray, sphere)
    IN  /\ HasExactSqrt(q.discriminant)
        /\ \/ RLt(q.discriminant, Zero)
           \/ Cardinality(SphereGridRoots(ray, sphere)) =
                 (IF q.discriminant = Zero THEN 1 ELSE 2)

SphereCalls ==
    {[fn |-> "ray_vs_sphere", ray |-> c[1][1], sphere |-> c[1][2], max_t |-> c[2]] :
        c \in {p \in Rays \X Spheres : SphereExact(p[1], p[2])} \X MaxTs}

RhombohedronCalls ==
    {[fn |-> "ray_vs_rhombohedron", ray |-> c[1], rhombohedron |-> c[2],
      max_t |-> c[3]] : c \in Rays \X Rhombohedrons \X MaxTs}

PlaneCalls ==
    {[fn |-> "ray_vs_plane", ray |-> c[1], plane |-> c[2], max_t |-> c[3]] :
        c \in Rays \X Planes \X MaxTs}

PolygonCalls ==
    {[fn |-> "ray_vs_polygon", ray |-> c[1], polygon |-> c[2],
      plane |-> c[2].plane, max_t |-> c[3]] : c \in Rays \X Polygons \X MaxTs}

\* Triangle::contains is called on points of the triangle's plane: a point
\* given by its barycentric coordinates, the centroid, or the centroid
\* mirrored in one of the three edges.
BaryCoords == {R(i, BaryDen) : i \in (-BaryDen)..(2 * BaryDen)}

ContainsCalls ==
    {[fn |-> "Triangle::contains", triangle |-> c[1],
      point |-> TrianglePoint(c[1], c[2], c[3]), kind |-> "barycentric",
      bx |-> c[2], by |-> c[3]] : c \in Triangles \X BaryCoords \X BaryCoords}
    \cup
    {[fn |-> "Triangle::contains", triangle |-> t,
      point |-> TriangleCentroid(t), kind |-> "centroid",
      bx |-> R(1, 3), by |-> R(1, 3)] : t \in Triangles}
    \cup
    {[fn |-> "Triangle::contains", triangle |-> c[1],
      point |-> ReflectAcross(TriangleCentroid(c[1]),
                              TriangleEdge(c[1], c[2])[1], TriangleEdge(c[1], c[2])[2]),
      kind |-> "reflected", bx |-> Zero, by |-> Zero] : c \in Triangles \X (1..3)}

\* The incidence values |ray.direction . normal| of a call of fresnel.
Cosines == {R(k, CosDen) : k \in 0..CosDen} \cup {R(k, CosDen + 8) : k \in 0..(CosDen + 8)}

\* fresnel is called as cast_ray calls it: for a ray in air (n_i = 1) or
\* inside the material hit (n_i = its index of refraction), on the incidence
\* values for which the square root is exact.
FresnelCalls ==
    {[fn |-> "fresnel", material |-> c[1], n_i |-> c[2], cos_theta_i |-> c[3]] :
        c \in {c \in Materials \X {AIR, R(5, 3), R(77, 50), R(6, 1), R(1000, 1)} \X Cosines :
                  /\ c[2] \in {AIR, c[1].index_of_refraction}
                  /\ HasExactSqrt(FresnelDeterminate(c[2],
                         Media(c[2], c[1], VZero).n_t, c[3]))}}

\* A specification per function: the call is drawn from the function's calls
\* and the function is applied to it.
InitCall(Calls) ==
    /\ RenderIdle
    /\ ScanIdle
    /\ CastIdle
    /\ call \in Calls
    /\ done = FALSE
    /\ ret = None

Call_ray_vs_sphere ==
    /\ call.fn = "ray_vs_sphere"
    /\ ~ done
    /\ ret' = ray_vs_sphere(call.ray, call.sphere, call.max_t)
    /\ done' = TRUE
    /\ UNCHANGED <<call, renderVars, scanVars, castVars>>

Call_ray_vs_rhombohedron ==
    /\ call.fn = "ray_vs_rhombohedron"
    /\ ~ done
    /\ ret' = ray_vs_rhombohedron(call.ray, call.rhombohedron, call.max_t)
    /\ done' = TRUE
    /\ UNCHANGED <<call, renderVars, scanVars, castVars>>

Call_ray_vs_plane ==
    /\ call.fn = "ray_vs_plane"
    /\ ~ done
    /\ ret' = ray_vs_plane(call.ray, call.plane, call.max_t)
    /\ done' = TRUE
    /\ UNCHANGED <<call, renderVars, scanVars, castVars>>

Call_ray_vs_polygon ==
    /\ call.fn = "ray_vs_polygon"
    /\ ~ done
    /\ ret' = ray_vs_polygon(call.ray, call.polygon, call.max_t)
    /\ done' = TRUE
    /\ UNCHANGED <<call, renderVars, scanVars, castVars>>

Call_Triangle_contains ==
    /\ call.fn = "Triangle::contains"
    /\ ~ done
    /\ ret' = TriangleContains(call.triangle, call.point)
    /\ done' = TRUE
    /\ UNCHANGED <<call, renderVars, scanVars, castVars>>

\* `let r_ = fresnel(n_i, n_t, u_i, u_t, r_dot_n)` of cast_ray.
Call_fresnel ==
    /\ call.fn = "fresnel"
    /\ ~ done
    /\ LET m == Media(call.n_i, call.material, VZero)
       IN  ret' = fresnel(call.n_i, m.n_t, m.u_i, m.u_t, call.cos_theta_i)
    /\ done' = TRUE
    /\ UNCHANGED <<call, renderVars, scanVars, castVars>>

InitSphere == InitCall(SphereCalls)
SpecSphere == InitSphere /\ [][Call_ray_vs_sphere]_vars

InitRhombohedron == InitCall(RhombohedronCalls)
SpecRhombohedron == InitRhombohedron /\ [][Call_ray_vs_rhombohedron]_vars

InitPlane == InitCall(PlaneCalls \cup PolygonCalls)
NextPlane ==
    \/ Call_ray_vs_plane
    \/ Call_ray_vs_polygon
SpecPlane == InitPlane /\ [][NextPlane]_vars

InitTriangle == InitCall(ContainsCalls)
SpecTriangle == InitTriangle /\ [][Call_Triangle_contains]_vars

InitFresnel == InitCall(FresnelCalls)
SpecFresnel == InitFresnel /\ [][Call_fresnel]_vars



-----------------------------------------------------------------------------
(* Intersection engine: properties of single calls *)

RMinOf(S) == CHOOSE t \in S : \A u \in S : RLe(t, u)
RMaxOf(S) == CHOOSE t \in S : \A u \in S : RGe(t, u)

OnPlane(p, plane) == Dot(VSub(p, plane.point), plane.normal) = Zero

\* p is in the closed region bounded by the six planes.
InRhombohedron(p, rhombohedron) ==
    \A i \in 1..6 :
        RLe(Dot(VSub(p, rhombohedron.planes[i].point),
                rhombohedron.planes[i].normal), Zero)

\* The sphere root policy, stated on the roots found by searching the grid:
\* no root, or a far root behind the origin: None; only the near root behind
\* the origin: the far root; otherwise the near root; and the chosen root is
\* dropped when it is not below max_t.
SpherePolicy(ray, sphere, max_t) ==
    LET roots == SphereGridRoots(ray, sphere)
    IN  IF roots = {} THEN None
        ELSE LET t1 == RMinOf(roots)
                 t2 == RMaxOf(roots)
                 t == IF RLt(t1, Zero) THEN t2 ELSE t1
             IN  IF RLt(t2, Zero) \/ RGe(t, max_t) THEN None
                 ELSE Some(Intersection(t, VSub(PointAt(ray, t), sphere.center)))

\* The ray origin is strictly outside the sphere and the direction points
\* away from it.
PointsAway(ray, sphere) ==
    LET oc == VSub(ray.origin, sphere.center)
    IN  /\ RGt(Dot(oc, oc), RMul(sphere.radius, sphere.radius))
        /\ RGt(Dot(oc, ray.direction), Zero)

\* C6: ray_vs_sphere returns None when the quadratic has no root or its far
\* root is negative, the far root when only the near root is negative, the
\* near root otherwise, each with the normal at that root and only when the
\* root is below max_t; so a ray that starts outside the sphere and points
\* away from it gets None.
SphereRootPolicy ==
    (call.fn = "ray_vs_sphere" /\ done) =>
        /\ ret = SpherePolicy(call.ray, call.sphere, call.max_t)
        /\ RLt(SphereQuadratic(call.ray, call.sphere).discriminant, Zero) =>
              ret = None
        /\ PointsAway(call.ray, call.sphere) => ret = None

\* C6 witness: a ray that starts inside a sphere gets the far root, the near
\* root being behind its origin.
SphereRootPolicyWitness ==
    /\ call.fn = "ray_vs_sphere"
    /\ done
    /\ ret.some
    /\ Cardinality(SphereGridRoots(call.ray, call.sphere)) = 2
    /\ RLt(RMinOf(SphereGridRoots(call.ray, call.sphere)), Zero)
    /\ ret.val.t = RMaxOf(SphereGridRoots(call.ray, call.sphere))
    /\ RGt(ret.val.t, Zero)

\* C4: every hit ray_vs_rhombohedron returns has 0 <= t <= max_t, lies on
\* one of the six bounding planes, within the box, and carries the non-zero
\* normal of that plane; and no hit is returned only when the ray does not
\* meet the box within max_t.
RhombohedronHitOnBox ==
    (call.fn = "ray_vs_rhombohedron" /\ done) =>
        /\ ret.some =>
              /\ RGe(ret.val.t, Zero)
              /\ RLe(ret.val.t, call.max_t)
              /\ ret.val.normal /= VZero
              /\ InRhombohedron(PointAt(call.ray, ret.val.t), call.rhombohedron)
              /\ \E i \in 1..6 :
                    /\ OnPlane(PointAt(call.ray, ret.val.t), call.rhombohedron.planes[i])
                    /\ ret.val.normal = call.rhombohedron.planes[i].normal
        /\ ~ ret.some =>
              \/ InRhombohedron(call.ray.origin, call.rhombohedron)
              \/ ~ \E t \in TGrid :
                      /\ RGe(t, Zero)
                      /\ RLt(t, call.max_t)
                      /\ InRhombohedron(PointAt(call.ray, t), call.rhombohedron)

\* C5: ray_vs_plane, and ray_vs_polygon which calls it first, return a hit
\* only at a distance 0 <= t < max_t, on the plane and with the plane's
\* normal; ray_vs_plane returns no hit only when the ray is parallel to the
\* plane or does not meet it in [0, max_t).
PlaneHitBelowMax ==
    (call.fn \in {"ray_vs_plane", "ray_vs_polygon"} /\ done) =>
        /\ ret.some =>
              /\ RGe(ret.val.t, Zero)
              /\ RLt(ret.val.t, call.max_t)
              /\ OnPlane(PointAt(call.ray, ret.val.t), call.plane)
              /\ ret.val.normal = call.plane.normal
        /\ (call.fn = "ray_vs_plane" /\ ~ ret.some) =>
              \/ Dot(call.ray.direction, call.plane.normal) = Zero
              \/ ~ \E t \in TGrid :
                      /\ RGe(t, Zero)
                      /\ RLt(t, call.max_t)
                      /\ OnPlane(PointAt(call.ray, t), call.plane)

\* C7: Triangle::contains, on a point of the plane of a non-degenerate
\* triangle, is true exactly when both barycentric coordinates of the point
\* are positive and their sum is below 1: true of the centroid, false of the
\* centroid mirrored in an edge, false on the edges and at the vertices.
TriangleContainsStrictInterior ==
    (call.fn = "Triangle::contains" /\ done) =>
        /\ call.kind = "barycentric" =>
              (ret <=> /\ RGt(call.bx, Zero)
                       /\ RGt(call.by, Zero)
                       /\ RLt(RAdd(call.bx, call.by), One))
        /\ call.kind = "centroid" => ret
        /\ call.kind = "reflected" => ~ ret

\* C7 witness: a point on an edge of a triangle whose edges are not
\* perpendicular, reported as not contained.
TriangleContainsWitness ==
    /\ call.fn = "Triangle::contains"
    /\ done
    /\ call.kind = "barycentric"
    /\ call.bx = Zero
    /\ RGt(call.by, Zero)
    /\ RLt(call.by, One)
    /\ Dot(call.triangle.edges[1], call.triangle.edges[2]) /= Zero
    /\ ~ ret

\* C10: the value R fresnel returns lies in [0, 1], is 1 when the term under
\* the square root is negative, and the weights specular_coefficient * R and
\* specular_coefficient * (1 - R) are non-negative and sum to at most
\* specular_coefficient.
FresnelEnergyBound ==
    (call.fn = "fresnel" /\ done) =>
        /\ RGe(ret, Zero)
        /\ RLe(ret, One)
        /\ RLt(FresnelDeterminate(call.n_i,
                  Media(call.n_i, call.material, VZero).n_t, call.cos_theta_i), Zero)
              => ret = One
        /\ RGe(reflection_coefficient(call.material, ret), Zero)
        /\ RGe(transmission_coefficient(call.material, ret), Zero)
        /\ RLe(RAdd(reflection_coefficient(call.material, ret),
                    transmission_coefficient(call.material, ret)),
               call.material.specular_coefficient)


-----------------------------------------------------------------------------
(* Whole-scene query (raytracer.rs: ray_vs_scene_helper) *)

\* The max_t of ray_vs_scene_shadow.
SHADOW_MAX_T == 1

ScanSpheres ==
    {Sphere(F3(0, 0, -4), One, SphereMaterial),
     Sphere(F3(0, 0, -8), R(2, 1), SphereMaterial)}
ScanEllipsoids ==
    {EllipsoidNew(F3(0, 0, -3), <<F3(1, 0, 0), F3(0, 2, 0), F3(0, 0, 1)>>,
                  EllipsoidMaterial)}
ScanRhombohedrons ==
    {RhombohedronFromCornerAndEdges(F3(-1, -1, 7), F3(8, 0, 0), F3(0, 0, -12),
                                    F3(0, 2, 0), RhombohedronMaterial),
     RhombohedronFromCornerAndEdges(F3(-1, -1, -3), F3(5, 0, 0), F3(0, 0, -2),
                                    F3(0, 2, 0), RhombohedronMaterial)}
ScanPolygons ==
    {PolygonFromVertices(<<F3(-1, -2, -3), F3(4, -2, -3), F3(4, 2, -3), F3(-1, 2, -3)>>,
                         PolygonMaterial),
     PolygonFromVertices(<<F3(-1, -2, 6), F3(-1, 2, 6), F3(7, 2, 6), F3(7, -2, 6)>>,
                         PolygonMaterial)}
ScanRays ==
    {Ray(F3(c[1], 0, c[2]), c[3]) :
        c \in {0, 3} \X {0, 2} \X {F3(0, 0, -1), F3(0, 0, 2), <<Zero, Zero, R(-1, 4)>>}}

\* The sequences of at most n distinct members of S.
SeqsUpTo(S, n) ==
    {<<>>} \cup {<<a>> : a \in S}
           \cup (IF n >= 2 THEN {<<c[1], c[2]>> : c \in {d \in S \X S : d[1] /= d[2]}}
                           ELSE {})

\* The scenes: up to MaxSpheres spheres and at most one shape of each other kind.
Scenes ==
    {[spheres |-> c[1], ellipsoids |-> c[2], rhombohedrons |-> c[3],
      polygons |-> c[4]] :
        c \in SeqsUpTo(ScanSpheres, MaxSpheres) \X SeqsUpTo(ScanEllipsoids, 1)
              \X SeqsUpTo(ScanRhombohedrons, 1) \X SeqsUpTo(ScanPolygons, 1)}

\* The order of the four loops.
NextList(list) ==
    CASE list = "spheres" -> "ellipsoids"
      [] list = "ellipsoids" -> "rhombohedrons"
      [] list = "rhombohedrons" -> "polygons"
      [] OTHER -> "returned"

\* The position at which the scan continues from (list, index): the next
\* shape of the list, of the first later list that is not empty, or the
\* return after the last loop.
RECURSIVE ScanPosition(_, _, _)
ScanPosition(sc, list, index) ==
    IF list = "returned" THEN [list |-> "returned", index |-> 1]
    ELSE IF index <= Len(sc[list]) THEN [list |-> list, index |-> index]
    ELSE ScanPosition(sc, NextList(list), 1)

\* Every square root the query takes on this ray and scene is exact.
ScanExact(ray, sc) ==
    /\ \A i \in 1..Len(sc.spheres) :
          HasExactSqrt(SphereQuadratic(ray, sc.spheres[i]).discriminant)
    /\ \A i \in 1..Len(sc.ellipsoids) :
          /\ HasExactSqrt(SphereQuadratic(EllipsoidSpaceRay(ray, sc.ellipsoids[i]),
                             EllipsoidSpaceSphere(sc.ellipsoids[i])).discriminant)
          /\ LET hit == ray_vs_sphere(EllipsoidSpaceRay(ray, sc.ellipsoids[i]),
                            EllipsoidSpaceSphere(sc.ellipsoids[i]), R(F64_MAX, 1))
             IN  hit.some =>
                    HasExactNorm(MatVec(sc.ellipsoids[i].inverse_transpose, hit.val.normal))

\* ray_vs_scene (break_on_hit = false, max_t = f64::MAX) or
\* ray_vs_scene_shadow (break_on_hit = true, max_t = 1.0) is called.
InitScene ==
    /\ RenderIdle
    /\ CastIdle
    /\ call = NoCall
    /\ done = FALSE
    /\ ret = None
    /\ scan_ray \in ScanRays
    /\ scan_scene \in Scenes
    /\ ScanExact(scan_ray, scan_scene)
    /\ break_on_hit \in BOOLEAN
    /\ scan_t = IF break_on_hit THEN R(SHADOW_MAX_T, 1) ELSE R(F64_MAX, 1)
    /\ scan_out = None
    /\ scan_at = ScanPosition(scan_scene, "spheres", 1)

\* The body of each of the four loops, given the result of the shape's test.
RecordHit(res, material) ==
    /\ scan_t' = (IF res.some THEN res.val.t ELSE scan_t)
    /\ scan_out' = (IF res.some THEN Some([intersection |-> res.val, material |-> material])
                    ELSE scan_out)
    /\ scan_at' = (IF res.some /\ break_on_hit
                      THEN [list |-> "returned", index |-> 1]
                      ELSE ScanPosition(scan_scene, scan_at.list, scan_at.index + 1))
    /\ UNCHANGED <<scan_ray, scan_scene, break_on_hit, renderVars, pureVars, castVars>>

ScanSphere ==
    /\ scan_at.list = "spheres"
    /\ RecordHit(ray_vs_sphere(scan_ray, scan_scene.spheres[scan_at.index], scan_t),
                 scan_scene.spheres[scan_at.index].material)

ScanEllipsoid ==
    /\ scan_at.list = "ellipsoids"
    /\ RecordHit(ray_vs_ellipsoid(scan_ray, scan_scene.ellipsoids[scan_at.index], scan_t),
                 scan_scene.ellipsoids[scan_at.index].material)

ScanRhombohedron ==
    /\ scan_at.list = "rhombohedrons"
    /\ RecordHit(ray_vs_rhombohedron(scan_ray, scan_scene.rhombohedrons[scan_at.index], scan_t),
                 scan_scene.rhombohedrons[scan_at.index].material)

ScanPolygon ==
    /\ scan_at.list = "polygons"
    /\ RecordHit(ray_vs_polygon(scan_ray, scan_scene.polygons[scan_at.index], scan_t),
                 scan_scene.polygons[scan_at.index].material)

NextScene ==
    \/ ScanSphere
    \/ ScanEllipsoid
    \/ ScanRhombohedron
    \/ ScanPolygon

SpecScene == InitScene /\ [][NextScene]_vars

\* Each shape's own nearest valid hit on the ray of the query, the shapes
\* taken one at a time with max_t = f64::MAX.
OwnHits ==
    {[hit |-> ray_vs_sphere(scan_ray, scan_scene.spheres[i], R(F64_MAX, 1)),
      material |-> scan_scene.spheres[i].material] : i \in 1..Len(scan_scene.spheres)}
    \cup
    {[hit |-> ray_vs_ellipsoid(scan_ray, scan_scene.ellipsoids[i], R(F64_MAX, 1)),
      material |-> scan_scene.ellipsoids[i].material] : i \in 1..Len(scan_scene.ellipsoids)}
    \cup
    {[hit |-> ray_vs_rhombohedron(scan_ray, scan_scene.rhombohedrons[i], R(F64_MAX, 1)),
      material |-> scan_scene.rhombohedrons[i].material] : i \in 1..Len(scan_scene.rhombohedrons)}
    \cup
    {[hit |-> ray_vs_polygon(scan_ray, scan_scene.polygons[i], R(F64_MAX, 1)),
      material |-> scan_scene.polygons[i].material] : i \in 1..Len(scan_scene.polygons)}

\* What ray_vs_scene has returned agrees with the shapes' own hits.
NearestOfOwnHits ==
    (scan_at.list = "returned" /\ ~ break_on_hit) =>
        /\ ~ scan_out.some <=> \A h \in OwnHits : ~ h.hit.some
        /\ scan_out.some =>
              /\ \A h \in OwnHits :
                    h.hit.some => RLe(scan_out.val.intersection.t, h.hit.val.t)
              /\ \E h \in OwnHits :
                    /\ h.hit.some
                    /\ h.hit.val.t = scan_out.val.intersection.t
                    /\ h.hit.val.normal = scan_out.val.intersection.normal
                    /\ h.material = scan_out.val.material

\* C3: in ray_vs_scene the running bound t never increases during the scan;
\* the result is None iff no shape is hit, and otherwise its t is the least
\* of the shapes' own hit distances and its normal and material are those of
\* a shape whose own hit distance is that t.
NearestHitOfScene ==
    /\ [](NearestOfOwnHits)
    /\ [][~ break_on_hit => RLe(scan_t', scan_t)]_vars

-----------------------------------------------------------------------------
(* Recursive shading (render.rs: cast_ray) *)

\* The largest depth cast_ray is called with.
MaxDepth == 3

\* The colour cast_ray starts from.
Black == VZero

\* A variant of the depth test that lets every call go on.
DepthExhaustedNever(depth) == FALSE
\* if depth == 0
DepthExhausted(depth) == depth = 0

\* A variant of the recursion test that lets a call of depth 1 go on.
MayRecurseAtOne(depth) == depth > 0
\* if depth > 1
MayRecurse(depth) == depth > 1

\* scene.ambient and scene.air_attenuation; scene.lights is empty.
Ambient == <<R(1, 2), R(1, 2), R(1, 4)>>
AirAttenuation == <<One, One, R(1, 2)>>

\* local_illumination on a scene without lights: the loop over the lights has
\* no iteration and the ambient colour is returned.
local_illumination(material, specular) == Ambient

\* f64::powf for a whole exponent.
RECURSIVE RPowN(_, _)
RPowN(a, n) == IF n = 0 THEN One ELSE RMul(a, RPowN(a, n - 1))

\* The last three statements of cast_ray.
Attenuate(attenuation, t, color) ==
    <<RMul(RPowN(attenuation[1], t), color[1]),
      RMul(RPowN(attenuation[2], t), color[2]),
      RMul(RPowN(attenuation[3], t), color[3])>>

\* The term of transmit whose sign decides whether a transmitted direction
\* exists; f_dot_n is (-ray.direction) . normal.
TransmitCosT(nit, f_dot_n) ==
    RSub(One, RMul(RMul(nit, nit), RSub(One, RMul(f_dot_n, f_dot_n))))
TransmitSome(nit, f_dot_n) == ~ RLe(TransmitCosT(nit, f_dot_n), Zero)

\* The materials of the scene being shaded, the distances t of its hits and
\* the values |ray.direction . normal| at them.
CastMaterials == {GlassMaterial, ClearMaterial, MagneticMaterial}
CastTs == {2}
CastCosines == {One, R(4, 5), R(3, 5)}

\* The medium a ray really travels in: None for air, Some(material) for a
\* ray that was transmitted into an object of that material and has not
\* left it.  It is not a value of the program.
MediumOfIndex(n_i) ==
    IF n_i = AIR THEN None
    ELSE Some(CHOOSE m \in CastMaterials : m.index_of_refraction = n_i)

\* The frame of a call cast_ray(ray, scene, depth, n_i) at its first statement.
Frame(depth, n_i, medium) ==
    [at |-> "enter", depth |-> depth, n_i |-> n_i, medium |-> medium,
     color |-> Black, lit |-> FALSE,
     material |-> ClearMaterial, t |-> 0, r_dot_n |-> Zero,
     n_t |-> AIR, u_i |-> AIR, u_t |-> AIR, attenuation |-> AirAttenuation,
     reflection_coefficient |-> Zero, transmission_coefficient |-> Zero]

\* The indices of refraction a ray can be cast with, and the calls of fresnel
\* cast_ray can make: <<n_i, material hit, |ray.direction . normal|>> with an
\* exact square root.
CastIndices == {AIR} \cup {m.index_of_refraction : m \in CastMaterials}
FresnelExact ==
    {a \in CastIndices \X CastMaterials \X CastCosines :
        HasExactSqrt(FresnelDeterminate(a[1],
            Media(a[1], a[2], AirAttenuation).n_t, a[3]))}

\* let r_ = fresnel(n_i, n_t, u_i, u_t, r_dot_n), for each of those calls.
FresnelOfMedia(n_i, m, r_dot_n) == fresnel(n_i, m.n_t, m.u_i, m.u_t, r_dot_n)
FresnelTable ==
    {<<a, FresnelOfMedia(a[1], Media(a[1], a[2], AirAttenuation), a[3])>> :
        a \in FresnelExact}
FresnelAt(a) == (CHOOSE p \in FresnelTable : p[1] = a)[2]

Top == cast_stack[Len(cast_stack)]
Caller == SubSeq(cast_stack, 1, Len(cast_stack) - 1)
SetTop(frame) == Append(Caller, frame)

\* What ray_vs_scene can return to the call on top: a ray in air hits any
\* object, a ray inside an object hits the surface of that object; the
\* incidence is one for which fresnel's square root is exact.
CastHits ==
    {[material |-> c[1], t |-> c[2], r_dot_n |-> c[3]] :
        c \in {d \in CastMaterials \X CastTs \X CastCosines :
                 /\ Top.medium.some => d[1] = Top.medium.val
                 /\ <<Top.n_i, d[1], d[3]>> \in FresnelExact}}

\* The calls of cast_ray: calculate_pixel_color passes n_i = 1.0; a ray that
\* starts inside the glass has n_i = 5/3.
CastCalls ==
    {[fn |-> "cast_ray", depth |-> c[1], n_i |-> c[2]] :
        c \in (0..MaxDepth) \X {AIR, GlassMaterial.index_of_refraction}}

InitCast ==
    /\ RenderIdle
    /\ ScanIdle
    /\ call \in CastCalls
    /\ done = FALSE
    /\ ret = None
    /\ cast_stack = <<Frame(call.depth, call.n_i, MediumOfIndex(call.n_i))>>
    /\ cast_res = None
    /\ cast_ret = None
    /\ queries = 0

\* `return color` of the call on top.
CastReturns(color) ==
    /\ cast_stack' = Caller
    /\ IF Len(cast_stack) = 1
          THEN /\ done' = TRUE
               /\ ret' = color
               /\ cast_ret' = None
          ELSE /\ cast_ret' = Some(color)
               /\ UNCHANGED <<done, ret>>
    /\ UNCHANGED <<call, renderVars, scanVars>>

\* if depth == 0 { return color; }
CastDepthZero ==
    /\ cast_stack /= <<>>
    /\ Top.at = "enter"
    /\ DepthExhausted(Top.depth)
    /\ CastReturns(Top.color)
    /\ UNCHANGED <<cast_res, queries>>

\* ray_vs_scene finds no hit: return color.
CastMiss ==
    /\ cast_stack /= <<>>
    /\ Top.at = "enter"
    /\ ~ DepthExhausted(Top.depth)
    /\ queries' = queries + 1
    /\ cast_res' = None
    /\ CastReturns(Top.color)

\* The frame after the statements from the hit to the local illumination.
Shaded(frame, hit, m, r_) ==
    [frame EXCEPT
        !.at = "reflect",
        !.material = hit.material, !.t = hit.t, !.r_dot_n = hit.r_dot_n,
        !.n_t = m.n_t, !.u_i = m.u_i, !.u_t = m.u_t,
        !.attenuation = m.attenuation,
        !.reflection_coefficient = reflection_coefficient(hit.material, r_),
        !.transmission_coefficient = transmission_coefficient(hit.material, r_),
        !.lit = InAir(frame.n_i),
        !.color = IF InAir(frame.n_i)
                     THEN VAdd(frame.color,
                               local_illumination(hit.material,
                                   reflection_coefficient(hit.material, r_)))
                     ELSE frame.color]

ShadedOf(frame, hit, m) ==
    Shaded(frame, hit, m, FresnelAt(<<frame.n_i, hit.material, hit.r_dot_n>>))

\* ray_vs_scene finds a hit: the media, the coefficients and the local
\* illumination.
CastHit ==
    /\ cast_stack /= <<>>
    /\ Top.at = "enter"
    /\ ~ DepthExhausted(Top.depth)
    /\ queries' = queries + 1
    /\ \E hit \in CastHits :
          /\ cast_res' = Some(hit)
          /\ cast_stack' = SetTop(ShadedOf(Top, hit,
                                  Media(Top.n_i, hit.material, AirAttenuation)))
    /\ UNCHANGED <<cast_ret, renderVars, pureVars, scanVars>>

\* The reflected ray is cast, or is not.
CastReflect ==
    /\ cast_stack /= <<>>
    /\ Top.at = "reflect"
    /\ IF MayRecurse(Top.depth) /\ ~ ApproxEq(Top.reflection_coefficient, Zero)
          THEN cast_stack' = Append(SetTop([Top EXCEPT !.at = "reflected"]),
                                    Frame(Top.depth - 1, Top.n_i, Top.medium))
          ELSE cast_stack' = SetTop([Top EXCEPT !.at = "transmit"])
    /\ UNCHANGED <<cast_res, cast_ret, queries, renderVars, pureVars, scanVars>>

\* color += reflection_coefficient * cast_ray(&reflection, ..)
CastReflected ==
    /\ cast_stack /= <<>>
    /\ Top.at = "reflected"
    /\ cast_ret.some
    /\ cast_stack' = SetTop([Top EXCEPT
                               !.at = "transmit",
                               !.color = VAdd(Top.color,
                                   VScale(Top.reflection_coefficient, cast_ret.val))])
    /\ cast_ret' = None
    /\ UNCHANGED <<cast_res, queries, renderVars, pureVars, scanVars>>

\* The medium a transmitted ray really enters.
Across(frame) == IF frame.medium.some THEN None ELSE Some(frame.material)

\* The transmitted ray is cast, or is not.
CastTransmit ==
    /\ cast_stack /= <<>>
    /\ Top.at = "transmit"
    /\ IF /\ MayRecurse(Top.depth)
          /\ ~ ApproxEq(Top.transmission_coefficient, Zero)
          /\ TransmitSome(RDiv(Top.n_i, Top.n_t), Top.r_dot_n)
          THEN cast_stack' = Append(SetTop([Top EXCEPT !.at = "transmitted"]),
                                    Frame(Top.depth - 1, Top.n_t, Across(Top)))
          ELSE cast_stack' = SetTop([Top EXCEPT !.at = "attenuate"])
    /\ UNCHANGED <<cast_res, cast_ret, queries, renderVars, pureVars, scanVars>>

\* color += transmission_coefficient * cast_ray(&transmission, ..)
CastTransmitted ==
    /\ cast_stack /= <<>>
    /\ Top.at = "transmitted"
    /\ cast_ret.some
    /\ cast_stack' = SetTop([Top EXCEPT
                               !.at = "attenuate",
                               !.color = VAdd(Top.color,
                                   VScale(Top.transmission_coefficient, cast_ret.val))])
    /\ cast_ret' = None
    /\ UNCHANGED <<cast_res, queries, renderVars, pureVars, scanVars>>

\* The attenuation over the distance travelled and the return.
CastAttenuate ==
    /\ cast_stack /= <<>>
    /\ Top.at = "attenuate"
    /\ CastReturns(Attenuate(Top.attenuation, Top.t, Top.color))
    /\ UNCHANGED <<cast_res, queries>>

NextCast ==
    \/ CastDepthZero
    \/ CastMiss
    \/ CastHit
    \/ CastReflect
    \/ CastReflected
    \/ CastTransmit
    \/ CastTransmitted
    \/ CastAttenuate

SpecCast == InitCast /\ [][NextCast]_vars

\* cast_ray is sequential code: the statement it is at is executed.
SpecCastFair == SpecCast /\ WF_vars(NextCast)

\* The frames that have a hit.
HitFrames == {i \in 1..Len(cast_stack) : cast_stack[i].at /= "enter"}

\* The media cast_ray works with at a hit are those of the ray's real medium.
MediaOfMedium(f) ==
    IF f.medium.some
       THEN /\ f.n_t = AIR
            /\ f.u_t = AIR
            /\ f.u_i = f.material.magnetic_permeability
            /\ f.attenuation = f.material.attenuation
       ELSE /\ f.n_t = f.material.index_of_refraction
            /\ f.u_t = f.material.magnetic_permeability
            /\ f.u_i = AIR
            /\ f.attenuation = AirAttenuation

\* The call nested in frame i is in the medium the claim gives it.
ChildMedium(i) ==
    i < Len(cast_stack) =>
        /\ cast_stack[i].at = "reflected" =>
              /\ cast_stack[i + 1].n_i = cast_stack[i].n_i
              /\ cast_stack[i + 1].medium = cast_stack[i].medium
        /\ cast_stack[i].at = "transmitted" =>
              /\ cast_stack[i + 1].n_i = cast_stack[i].n_t
              /\ cast_stack[i + 1].medium = Across(cast_stack[i])

\* C8: local illumination is added only at the hits of rays that travel in
\* air, never for a ray transmitted into an object that has not left it;
\* the media at a hit are those of the ray's real medium, a reflected ray
\* keeps the medium and a transmitted ray changes it.
LocalIlluminationOnlyInAir ==
    \A i \in HitFrames :
        /\ cast_stack[i].lit <=> ~ cast_stack[i].medium.some
        /\ MediaOfMedium(cast_stack[i])
        /\ ChildMedium(i)

\* C9: a call with depth = 0 returns black without a whole-scene query and
\* without a nested call, and a call whose query finds no hit returns black.
BlackWithoutHit ==
    [][(cast_stack /= <<>> /\ Top.at = "enter") =>
          /\ Top.depth = 0 =>
                /\ queries' = queries
                /\ cast_res' = cast_res
                /\ cast_stack' = Caller
                /\ (IF Len(cast_stack) = 1 THEN done' /\ ret' = VZero
                    ELSE cast_ret' = Some(VZero))
          /\ (Top.depth /= 0 /\ ~ cast_res'.some) =>
                /\ queries' = queries + 1
                /\ cast_stack' = Caller
                /\ (IF Len(cast_stack) = 1 THEN done' /\ ret' = VZero
                    ELSE cast_ret' = Some(VZero))]_vars

\* A call with depth = 0 and an index of refraction that is not air's has
\* returned black without a query.
BlackWithoutHitWitness ==
    /\ call.fn = "cast_ray"
    /\ call.depth = 0
    /\ call.n_i /= AIR
    /\ done
    /\ ret = VZero
    /\ queries = 0
    /\ cast_stack = <<>>

\* The position of a call in the body of cast_ray.
AtRank(at) ==
    CASE at = "enter" -> 0
      [] at = "reflect" -> 1
      [] at = "reflected" -> 2
      [] at = "transmit" -> 3
      [] at = "transmitted" -> 4
      [] OTHER -> 5

RECURSIVE Pow2(_)
Pow2(n) == IF n = 0 THEN 1 ELSE 2 * Pow2(n - 1)

\* The calls in progress form a chain of at most `depth` calls (the call
\* itself when depth = 0), none of the nested ones has depth 0, each has the
\* depth of its caller less one, and at most 2^depth - 1 queries were made.
RecursionChain ==
    call.fn = "cast_ray" =>
        /\ Len(cast_stack) <= (IF call.depth = 0 THEN 1 ELSE call.depth)
        /\ queries <= Pow2(call.depth) - 1
        /\ \A i \in 1..Len(cast_stack) :
              /\ i = 1 => cast_stack[i].depth = call.depth
              /\ i > 1 => /\ cast_stack[i].depth = cast_stack[i - 1].depth - 1
                          /\ cast_stack[i].depth >= 1
                          /\ cast_stack[i - 1].at \in {"reflected", "transmitted"}

\* A step that starts a nested call is made by a call of depth > 1, which moves
\* from the reflection to waiting for the reflected ray or from the
\* transmission to waiting for the transmitted one; a call only moves forward
\* through its body, so it starts each of the two at most once.
RecursionStep ==
    /\ Len(cast_stack') > Len(cast_stack) =>
          /\ Len(cast_stack') = Len(cast_stack) + 1
          /\ Top.depth > 1
          /\ cast_stack'[Len(cast_stack')].depth = Top.depth - 1
          /\ cast_stack'[Len(cast_stack')].at = "enter"
          /\ \/ Top.at = "reflect" /\ cast_stack'[Len(cast_stack)].at = "reflected"
             \/ Top.at = "transmit" /\ cast_stack'[Len(cast_stack)].at = "transmitted"
    /\ (cast_stack /= <<>> /\ Len(cast_stack') = Len(cast_stack)) =>
          AtRank(cast_stack'[Len(cast_stack)].at) > AtRank(Top.at)
    /\ Len(cast_stack') < Len(cast_stack) => Len(cast_stack') = Len(cast_stack) - 1

-----------------------------------------------------------------------------
(* Frame driver: what the canvas has received *)

Pixels == (0..(scene_width - 1)) \X (0..(scene_height - 1))

\* The number of set_pixel(px, py, .) calls received so far.
SetCount(px, py) ==
    Cardinality({i \in 1..Len(canvas) :
        canvas[i].op = "set_pixel" /\ canvas[i].x = px /\ canvas[i].y = py})

\* Row `row` has been rendered: each of its pixels has been set.
RowRendered(row) == \A px \in 0..(scene_width - 1) : SetCount(px, row) >= 1

\* Row `row` has been started.
RowTouched(row) == \E px \in 0..(scene_width - 1) : SetCount(px, row) >= 1

\* What a single uninterrupted pass of render_scene(scene, canvas, 0, depth)
\* sets each pixel to.
UninterruptedPass ==
    [p \in Pixels |-> calculate_pixel_color(scene_width, scene_height, p[1], p[2])]

\* render_scene has returned the sentinel to main.
Completed == main_y = U32_MAX /\ pc \in {"returned", "main", "quit"}

\* C1: render_scene is resumable.  Whatever the rows after which the budget
\* expires, chaining the calls by the returned cursor from 0 never sets a pixel
\* twice, never starts a row while a row below it is incomplete, sets every
\* pixel to the colour of the uninterrupted pass, and has set every pixel of
\* the image exactly once when the sentinel is returned.
ResumableRender ==
    /\ \A p \in Pixels : SetCount(p[1], p[2]) <= 1
    /\ \A i \in 1..Len(canvas) :
          canvas[i].op = "set_pixel" =>
             /\ <<canvas[i].x, canvas[i].y>> \in Pixels
             /\ canvas[i].color = UninterruptedPass[<<canvas[i].x, canvas[i].y>>]
    /\ \A row \in 0..(scene_height - 1) :
          RowTouched(row) => \A below \in 0..(row - 1) : RowRendered(below)
    /\ Completed => \A p \in Pixels : SetCount(p[1], p[2]) = 1

\* C1 witness: an image of several rows completed in three or more calls, the
\* budget having expired in the middle of the image.
ResumableRenderWitness ==
    /\ Completed
    /\ calls >= 3
    /\ scene_height >= 3
    /\ \A p \in Pixels : SetCount(p[1], p[2]) = 1

\* C2: at the return of render_scene(scene, canvas, start_y, depth) the
\* sentinel is returned exactly when every row of [start_y, height) has been
\* rendered, and any other value r is the next unrendered row, with
\* start_y < r < height.
ReturnValueContract ==
    pc = "returned" =>
       /\ main_y = U32_MAX <=>
             \A row \in start_y..(scene_height - 1) : RowRendered(row)
       /\ main_y /= U32_MAX =>
             /\ start_y < main_y
             /\ main_y < scene_height
             /\ ~ RowRendered(main_y)

\* The positions in the canvas's history of the set_pixel calls.
PixelCalls == {i \in 1..Len(canvas) : canvas[i].op = "set_pixel"}

\* The set_pixel call that follows the one at position i, if any.
NextPixelCall(i) ==
    IF \E j \in PixelCalls : j > i
       THEN Some(CHOOSE j \in PixelCalls : j > i /\ \A k \in PixelCalls : k > i => j <= k)
       ELSE None

\* A row is emitted left to right, x = 0 .. width - 1, before a pixel of
\* another row is.
RowLeftToRight ==
    \A i \in PixelCalls :
        /\ (\A k \in PixelCalls : i <= k) => canvas[i].x = 0
        /\ NextPixelCall(i).some =>
              LET j == NextPixelCall(i).val
              IN  IF canvas[i].x + 1 < scene_width
                     THEN canvas[j].y = canvas[i].y /\ canvas[j].x = canvas[i].x + 1
                     ELSE canvas[j].y /= canvas[i].y /\ canvas[j].x = 0

\* The row emitted after a row is the one below it: image-space has its origin
\* at the bottom-left, so the row below y is y - 1.
RowsTopToBottom ==
    \A i \in PixelCalls :
        (NextPixelCall(i).some /\ canvas[NextPixelCall(i).val].y /= canvas[i].y) =>
            canvas[NextPixelCall(i).val].y = canvas[i].y - 1

\* The order the code emits the rows in: the row after y is y + 1.
RowsBottomToTop ==
    \A i \in PixelCalls :
        (NextPixelCall(i).some /\ canvas[NextPixelCall(i).val].y /= canvas[i].y) =>
            canvas[NextPixelCall(i).val].y = canvas[i].y + 1

\* The last pixel of a row is followed by a present(), made before anything
\* else is.
PresentAfterRow ==
    \A i \in PixelCalls :
        canvas[i].x + 1 = scene_width =>
            IF i = Len(canvas) THEN pc = "rowend"
            ELSE canvas[i + 1].op = "present"

\* render_scene calls present() once at the end of a row and nowhere else,
\* and returns at the end of a row only.
RowEndStep ==
    /\ pc = "rowend" => canvas' = Append(canvas, PresentEvent)
    /\ pc = "pixel" => /\ pc' \in {"pixel", "rowend"}
                       /\ Len(canvas') = Len(canvas) + 1
                       /\ canvas'[Len(canvas')].op = "set_pixel"
    /\ (pc' = "returned" /\ pc /= "returned") =>
          \/ pc = "rowend"
          \/ pc = "main" /\ main_y >= scene_height

\* C12: render_scene emits the pixels scan-line by scan-line, each row left
\* to right before any pixel of another row, the rows from the top of the
\* image-space to the bottom, calls present() once after each completed row,
\* and tests the budget after a complete row only.
ScanOrder ==
    /\ [](RowLeftToRight /\ RowsTopToBottom /\ PresentAfterRow)
    /\ [][RowEndStep]_vars

\* C13: render_scene never aborts: every step of the row loop is defined,
\* the progress-log test `y % (scene.width / 10)` included, whatever the width.
RenderNeverAborts == pc /= "panicked"

\* The rows of the window.
WindowRows == 0..(scene_height - 1)

\* C14: every pixel render_scene emits is drawn by Window::set_pixel in a row
\* of the window, the bottom row y = 0 in the window's last row and the top
\* row y = height - 1 in its first, distinct rows in distinct window rows, and
\* the subtraction height - y does not underflow.
DisplayFlip ==
    \A i \in PixelCalls :
        /\ ~ WindowRowUnderflows(scene_height, canvas[i].y)
        /\ canvas[i].row \in WindowRows
        /\ canvas[i].y = 0 => canvas[i].row = scene_height - 1
        /\ canvas[i].y = scene_height - 1 => canvas[i].row = 0
        /\ \A j \in PixelCalls :
              canvas[i].y /= canvas[j].y => canvas[i].row /= canvas[j].row

-----------------------------------------------------------------------------
(* Polygon coverage (raytracer.rs: ray_vs_polygon on a fanned polygon) *)

\* The points tested have coordinates k / CoverageDen.
CoverageDen == 2

\* The vertex loops of two convex polygons of the plane z = -3: a rectangle
\* and a pentagon.
CoverageLoops ==
    {<<F3(-1, -2, -3), F3(4, -2, -3), F3(4, 2, -3), F3(-1, 2, -3)>>,
     <<F3(0, -2, -3), F3(2, -2, -3), F3(3, 0, -3), F3(2, 2, -3), F3(0, 2, -3)>>}

\* The points of the plane z = -3 the rays are aimed at.
CoveragePoints ==
    {<<R(c[1], CoverageDen), R(c[2], CoverageDen), R(-3, 1)>> :
        c \in ((-2 * CoverageDen)..(5 * CoverageDen))
              \X ((-3 * CoverageDen)..(3 * CoverageDen))}

\* ray_vs_polygon is called with a ray that starts 3 above the point and
\* runs straight down to it, so that it meets the plane at t = 3, in the point.
CoverageCalls ==
    {[fn |-> "ray_vs_polygon",
      ray |-> Ray(VAdd(c[2], F3(0, 0, 3)), F3(0, 0, -1)),
      polygon |-> PolygonFromVertices(c[1], PolygonMaterial),
      max_t |-> c[3], vertices |-> c[1], point |-> c[2]] :
        c \in CoverageLoops \X CoveragePoints \X {R(F64_MAX, 1), R(4, 1), R(2, 1)}}

InitPolygon == InitCall(CoverageCalls)
SpecPolygon == InitPolygon /\ [][Call_ray_vs_polygon]_vars

\* On which side of the edge from vertex k to the next vertex of the loop the
\* point lies: positive on the side of the polygon.
EdgeSide(vertices, k, point) ==
    Dot(Cross(VSub(vertices[(k % Len(vertices)) + 1], vertices[k]),
              VSub(point, vertices[k])),
        Cross(VSub(vertices[2], vertices[1]), VSub(vertices[3], vertices[1])))

StrictlyInsidePolygon(vertices, point) ==
    \A k \in 1..Len(vertices) : RGt(EdgeSide(vertices, k, point), Zero)
OutsidePolygon(vertices, point) ==
    \E k \in 1..Len(vertices) : RLt(EdgeSide(vertices, k, point), Zero)

\* C15: ray_vs_polygon reports a hit for every ray that meets the plane of a
\* convex polygon, within max_t, in a point strictly inside the polygon, the
\* points of the diagonals of the fan included, and a miss for every point
\* outside the polygon.
PolygonCoverage ==
    (call.fn = "ray_vs_polygon" /\ done) =>
        /\ (RLt(R(3, 1), call.max_t) /\ StrictlyInsidePolygon(call.vertices, call.point))
              => ret.some
        /\ OutsidePolygon(call.vertices, call.point) => ~ ret.some


=============================================================================
